---- MODULE Spec2Model ----
(***************************************************************************)
(* chown (Go coreutils): the ownership-change engine of                    *)
(* src/coreutils/chown/chown.go -- main's flag handling, ChownFiles, walk, *)
(* readDirNames, ChangeOwner, RestrictedChown and the change report --     *)
(* run against a small file system.  One action is one system call of the  *)
(* program together with the local computation that follows it, so that a  *)
(* second process (SpecRace) can re-point a path between two calls.        *)
(***************************************************************************)
EXTENDS Integers, Sequences, FiniteSets, TLC

(***************************************************************************)
(* Bounds of the model.                                                    *)
(***************************************************************************)
\* options on the command line besides OWNER:GROUP and FILE
MaxOpts == 3
\* symbolic links the kernel follows in one path resolution before ELOOP
MaxSymlinks == 2
\* directory entries the second process re-points during one run
MaxRepoints == 1

(***************************************************************************)
(* Program constants.                                                      *)
(***************************************************************************)
ROOT_INODE == 2
\* int(^uint(0) >> 1) of a build whose int has 32 bits
MAX_INT == 2147483647

\* 32-bit words (os.FileMode, Stat_t.Mode) are the sets of their 1 bits
ModeDir == {31}
ModeSymlink == {27}
ModeDevice == {26}
ModeNamedPipe == {25}
ModeSocket == {24}
ModeCharDevice == {21}
ModeType == ModeDir \cup ModeSymlink \cup ModeNamedPipe \cup ModeSocket \cup ModeDevice

RC_UNSET == 0
RC_OK == 2
RC_EXCLUDED == 3
RC_INODE_CHANGED == 4
RC_DO_ORDINARY_CHOWN == 5
RC_ERROR == 6

CH_NOT_APPLIED == 1
CH_SUCCEEDED == 2
CH_FAILED == 3
CH_NO_CHANGE_REQUESTED == 4

\* "-1 if not to be changed", "-1 means there's no restriction"
Unset == -1

(***************************************************************************)
(* The file system the program runs on.  An inode is named by its st_ino;  *)
(* "/" has inode 2.                                                        *)
(*   /d      a.txt  b.txt  c/z.txt                                         *)
(*   /e      k -> /d/c   n (character device)   s/y   x -> /nowhere       *)
(*   /g      loop -> /g                                                    *)
(*   /ln -> /e                                                             *)
(*   /v      a file of root's, outside every tree the runs are given       *)
(***************************************************************************)
\* what a path that does not resolve yields
NoInode == 0
RootDir == ROOT_INODE
Inodes == {2, 11, 12, 13, 14, 15, 21, 22, 23, 24, 25, 26, 31, 41, 51, 52}

IType ==
  2 :> "dir" @@ 11 :> "dir" @@ 12 :> "reg" @@ 13 :> "reg" @@ 14 :> "dir" @@
  15 :> "reg" @@ 21 :> "dir" @@ 22 :> "lnk" @@ 23 :> "chr" @@ 24 :> "dir" @@
  25 :> "reg" @@ 26 :> "lnk" @@ 31 :> "lnk" @@ 41 :> "reg" @@ 51 :> "dir" @@
  52 :> "lnk"

Path(abs, comps) == [abs |-> abs, comps |-> comps]
EmptyPath == Path(FALSE, <<>>)

LinkTarget ==
  22 :> Path(TRUE, <<"d", "c">>) @@ 26 :> Path(TRUE, <<"nowhere">>) @@
  31 :> Path(TRUE, <<"e">>) @@ 52 :> Path(TRUE, <<"g">>)

EmptyDir == [n \in {} |-> NoInode]

Dirents0 ==
  [i \in Inodes |->
     CASE i = 2  -> ("d" :> 11 @@ "e" :> 21 @@ "g" :> 51 @@ "ln" :> 31 @@ "v" :> 41)
       [] i = 11 -> ("a.txt" :> 12 @@ "b.txt" :> 13 @@ "c" :> 14)
       [] i = 14 -> ("z.txt" :> 15)
       [] i = 21 -> ("k" :> 22 @@ "n" :> 23 @@ "s" :> 24 @@ "x" :> 26)
       [] i = 24 -> ("y" :> 25)
       [] i = 51 -> ("loop" :> 52)
       [] OTHER  -> EmptyDir]

Owner(u, g) == [uid |-> u, gid |-> g]

Own0 ==
  [i \in Inodes |->
     CASE i \in {2, 13, 23, 41} -> Owner(0, 0)
       [] i = 14 -> Owner(500, 0)
       [] i = 15 -> Owner(0, 100)
       [] OTHER  -> Owner(500, 100)]

\* the bytes of the names, as sort.Strings compares them
NameBytes ==
  "a.txt" :> <<97, 46, 116, 120, 116>> @@ "b.txt" :> <<98, 46, 116, 120, 116>> @@
  "c" :> <<99>> @@ "d" :> <<100>> @@ "e" :> <<101>> @@ "g" :> <<103>> @@
  "k" :> <<107>> @@ "ln" :> <<108, 110>> @@ "loop" :> <<108, 111, 111, 112>> @@
  "n" :> <<110>> @@ "s" :> <<115>> @@ "v" :> <<118>> @@ "x" :> <<120>> @@
  "y" :> <<121>> @@ "z.txt" :> <<122, 46, 116, 120, 116>>

\* the accounts the identity resolver knows
Users == {0, 500, 1000}
Groups == {0, 100}

(***************************************************************************)
(* The kernel: path resolution and the raw st_mode.                        *)
(***************************************************************************)
RECURSIVE Lookup(_, _, _, _, _)
Lookup(de, cur, comps, follow, budget) ==
  IF comps = <<>> THEN cur
  ELSE IF IType[cur] # "dir" \/ Head(comps) \notin DOMAIN de[cur] THEN NoInode
  ELSE LET child == de[cur][Head(comps)]
           rest  == Tail(comps)
       IN  IF IType[child] = "lnk" /\ (rest # <<>> \/ follow)
           THEN IF budget = 0 THEN NoInode
                ELSE LET t == LinkTarget[child]
                     IN  Lookup(de, IF t.abs THEN RootDir ELSE cur,
                                t.comps \o rest, follow, budget - 1)
           ELSE Lookup(de, child, rest, follow, budget)

\* a path resolved from directory `start` (the working directory is "/")
NameiAt(de, start, path, follow) ==
  IF path.abs THEN Lookup(de, RootDir, path.comps, follow, MaxSymlinks)
  ELSE IF path.comps = <<>> \/ start = NoInode THEN NoInode
  ELSE Lookup(de, start, path.comps, follow, MaxSymlinks)

Namei(de, path, follow) == NameiAt(de, RootDir, path, follow)

\* S_IFDIR 0040000, S_IFREG 0100000, S_IFLNK 0120000, S_IFCHR 0020000, and
\* the permission bits 0755 (directories) or 0644
StMode(i) ==
  CASE IType[i] = "dir" -> {14, 8, 7, 6, 5, 3, 2, 0}
    [] IType[i] = "reg" -> {15, 8, 7, 5, 2}
    [] IType[i] = "lnk" -> {15, 13, 8, 7, 6, 5, 4, 3, 2, 1, 0}
    [] OTHER            -> {13, 8, 7, 5, 2}

\* os.FileMode as package os builds it from st_mode (fillFileStatFromSys)
GoMode(i) ==
  (StMode(i) \cap (0 .. 8)) \cup
  (CASE IType[i] = "dir" -> ModeDir
     [] IType[i] = "lnk" -> ModeSymlink
     [] IType[i] = "chr" -> ModeDevice \cup ModeCharDevice
     [] OTHER            -> {})

(***************************************************************************)
(* The command line and the environment of one run.                        *)
(***************************************************************************)
\* an argument word: a decimal number or the empty string
Num(n) == [num |-> TRUE, val |-> n]
NoTok == [num |-> FALSE, val |-> 0]

FlagNames == {"-h", "-R", "--preserve-root", "-v", "-c"}
TravNames == {"-H", "-L", "-P"}
TravSeqs ==
  {<<>>} \cup {<<a>> : a \in TravNames} \cup
  {s \in {<<a, b>> : a \in TravNames, b \in TravNames} : s[1] # s[2]}
FromToks == {NoTok, Num(0), Num(500), Num(100)}
OwnerSpecs == {<<Num(1000), NoTok>>, <<Num(1000), Num(100)>>}
Targets ==
  {Path(TRUE, <<"d">>), Path(FALSE, <<"d">>), Path(TRUE, <<"e">>),
   Path(TRUE, <<"ln">>), Path(TRUE, <<"g">>), Path(TRUE, <<>>),
   Path(TRUE, <<"d", "a.txt">>), Path(TRUE, <<"d", "b.txt">>),
   Path(TRUE, <<"e", "x">>)}

OptCount(c) ==
  Cardinality(c.flags) + Len(c.trav) + (IF c.from = NoTok THEN 0 ELSE 1)

CommandLines ==
  {c \in [flags : SUBSET FlagNames, trav : TravSeqs, from : FromToks,
          owner : OwnerSpecs, inFile : Targets] : OptCount(c) <= MaxOpts}

\* eperm: the inodes whose owner this process may not change;
\* unreadable: the inodes it may not open for reading;
\* closefail: the inodes on which close(2) reports an error (EIO)
Environments ==
  {[eperm |-> {}, unreadable |-> {}, closefail |-> {}],
   [eperm |-> {13}, unreadable |-> {}, closefail |-> {}],
   [eperm |-> {}, unreadable |-> {14}, closefail |-> {}],
   [eperm |-> {}, unreadable |-> {}, closefail |-> {12}]}

VARIABLES
  cli,            \* the command line, as flag.Parse leaves it
  env,            \* what the kernel refuses this process
  deref,          \* *deref
  DO_NOT_FOLLOW,
  dirents,        \* directory inode -> name -> inode
  own,            \* inode -> owner and group
  fdtab,          \* the process's open files: fdtab[k] is behind descriptor k + 2
  pc,             \* the statement the program is at
  wstack,         \* the frames of walk, innermost first
  co,             \* the locals of the running ChangeOwner
  rc,             \* the locals of the running RestrictedChown
  result,         \* what ChownFiles returned
  log,            \* the system calls made and the reports printed, in order
  repoints        \* directory entries re-pointed by the second process

vars ==
  <<cli, env, deref, DO_NOT_FOLLOW, dirents, own, fdtab, pc, wstack, co, rc,
    result, log, repoints>>

\* the flags after flag.Parse
changes == "-c" \in cli.flags
noderef == "-h" \in cli.flags
pr == "--preserve-root" \in cli.flags
recursive == "-R" \in cli.flags
verbose == "-v" \in cli.flags
travDir == \E k \in 1 .. Len(cli.trav) : cli.trav[k] = "-H"
travAll == \E k \in 1 .. Len(cli.trav) : cli.trav[k] = "-L"
noTrav == TRUE
\* *silent || *silent2, evaluated when the package is initialised
mute == FALSE
inFile == cli.inFile

\* main's reading of one word as a user (group) id
ParseId(tok, known) == IF tok.num /\ tok.val \in known THEN tok.val ELSE Unset
optUid == ParseId(cli.owner[1], Users)
optGid == ParseId(cli.owner[2], Groups)
\* both are read from b[1]
reqUid == ParseId(cli.from, Users)
reqGid == ParseId(cli.from, Groups)

(***************************************************************************)
(* Values of the program.                                                  *)
(***************************************************************************)
NilInfo == [nil |-> TRUE, mode |-> {}, dev |-> 0, ino |-> NoInode]
Info(i) ==
  IF i = NoInode THEN NilInfo
  ELSE [nil |-> FALSE, mode |-> GoMode(i), dev |-> 1, ino |-> i]
Stat(path) == Info(Namei(dirents, path, TRUE))
Lstat(path) == Info(Namei(dirents, path, FALSE))
IsDir(fi) == fi.mode \cap ModeDir # {}
IsRegular(fi) == fi.mode \cap ModeType = {}
SameFile(a, b) == ~a.nil /\ ~b.nil /\ a.dev = b.dev /\ a.ino = b.ino

ZeroStat == [Mode |-> {}, Ino |-> 0, Uid |-> 0, Gid |-> 0]
SysStat(i) ==
  IF i = NoInode THEN ZeroStat
  ELSE [Mode |-> StMode(i), Ino |-> i, Uid |-> own[i].uid, Gid |-> own[i].gid]

\* uint32(x) of an int, as its two 16-bit halves
U32(x) ==
  IF x >= 0 THEN <<x \div 65536, x % 65536>>
  ELSE <<32768 + ((x + 2147483647 + 1) \div 65536), (x + 2147483647 + 1) % 65536>>

Join(path, name) == Path(path.abs, Append(path.comps, name))
Readlink(path) ==
  LET i == Namei(dirents, path, FALSE)
  IN  IF i # NoInode /\ IType[i] = "lnk" THEN LinkTarget[i] ELSE EmptyPath

NilFile == -1
FreeSlot(t) ==
  IF \E k \in 1 .. Len(t) : t[k] = NoInode
  THEN CHOOSE k \in 1 .. Len(t) :
         t[k] = NoInode /\ \A j \in 1 .. k - 1 : t[j] # NoInode
  ELSE Len(t) + 1
FdOpen(t, i) ==
  IF FreeSlot(t) > Len(t) THEN Append(t, i) ELSE [t EXCEPT ![FreeSlot(t)] = i]
FdInode(t, fd) == IF fd - 2 \in 1 .. Len(t) THEN t[fd - 2] ELSE NoInode
FdClose(t, fd) == [t EXCEPT ![fd - 2] = NoInode]

\* chown(2), lchown(2), fchown(2) on inode i
ChownErr(i) ==
  IF i = NoInode THEN "ENOENT" ELSE IF i \in env.eperm THEN "EPERM" ELSE "nil"
\* close(2) of a descriptor of inode i; the descriptor is released either way
CloseErr(i) ==
  IF i = NoInode THEN "EBADF" ELSE IF i \in env.closefail THEN "EIO" ELSE "nil"
Chowned(o, i, uid, gid) ==
  [o EXCEPT ![i] = Owner(IF uid = Unset THEN @.uid ELSE uid,
                         IF gid = Unset THEN @.gid ELSE gid)]

Ev(op, path, ino, ok) == [op |-> op, path |-> path, ino |-> ino, ok |-> ok]

Frame(path, info) ==
  [path |-> path, info |-> info, ok |-> FALSE, sym |-> FALSE, names |-> <<>>,
   i |-> 0, at |-> "head"]
NoCall ==
  [fname |-> EmptyPath, origStat |-> NilInfo, ok |-> TRUE, doChown |-> FALSE,
   symlinkChanged |-> TRUE, status |-> RC_UNSET, fi |-> NilFile,
   stat_t |-> ZeroStat]
NewCall(fname, origStat) == [NoCall EXCEPT !.fname = fname, !.origStat = origStat]
NoRC ==
  [fileInfo |-> NilInfo, dirOnly |-> FALSE, fd |-> NilFile, fstat |-> ZeroStat,
   status |-> RC_UNSET]

B2S(b) == IF b THEN "true" ELSE "false"

Init ==
  /\ cli \in CommandLines
  /\ env \in Environments
  /\ deref = TRUE
  /\ DO_NOT_FOLLOW = FALSE
  /\ dirents = Dirents0
  /\ own = Own0
  /\ fdtab = <<>>
  /\ pc = "main"
  /\ wstack = <<>>
  /\ co = NoCall
  /\ rc = NoRC
  /\ result = "none"
  /\ log = <<>>
  /\ repoints = 0

(***************************************************************************)
(* main, after the parsing of the arguments, and ChownFiles.               *)
(***************************************************************************)
Main ==
  /\ pc = "main"
  /\ deref' = (IF noderef THEN FALSE ELSE deref)
  /\ pc' = IF recursive /\ deref' /\ ~travDir /\ ~travAll
           THEN "exit" ELSE "ChownFiles"
  /\ UNCHANGED <<cli, env, DO_NOT_FOLLOW, dirents, own, fdtab, wstack, co, rc,
                 result, log, repoints>>

ChownFiles ==
  /\ pc = "ChownFiles"
  /\ LET fi == IF ~deref THEN Lstat(inFile) ELSE Stat(inFile)
     IN  /\ wstack' = IF recursive THEN <<Frame(inFile, fi)>> ELSE <<>>
         /\ co' = NewCall(inFile, fi)
         /\ log' = Append(log, Ev(IF ~deref THEN "lstat" ELSE "stat", inFile,
                                  fi.ino, ~fi.nil))
  /\ pc' = "ChangeOwner"
  /\ UNCHANGED <<cli, env, deref, DO_NOT_FOLLOW, dirents, own, fdtab, rc,
                 result, repoints>>

\* the return of ChangeOwner to walk (line 206, or lines 234 and 238) or to
\* ChownFiles
ChangeOwnerReturns(ok) ==
  IF wstack = <<>>
  THEN /\ wstack' = wstack
       /\ result' = B2S(ok)
       /\ pc' = "done"
  ELSE /\ result' = result
       /\ IF Head(wstack).at = "head"
          THEN /\ wstack' = <<[Head(wstack) EXCEPT !.ok = ok]>> \o Tail(wstack)
               /\ pc' = "readDirNames"
          ELSE /\ wstack' = <<[Head(wstack) EXCEPT !.ok = ok, !.i = @ + 1]>>
                              \o Tail(wstack)
               /\ pc' = "walkChild"

\* the return of the innermost walk to the walk that called it (lines 232 and
\* 236) or to ChownFiles
WalkReturns(ok) ==
  IF Tail(wstack) = <<>>
  THEN /\ wstack' = <<>>
       /\ result' = B2S(ok)
       /\ pc' = "done"
  ELSE /\ result' = result
       /\ wstack' = <<[wstack[2] EXCEPT !.ok = ok, !.i = @ + 1]>>
                      \o Tail(Tail(wstack))
       /\ pc' = "walkChild"

(***************************************************************************)
(* readDirNames and walk.                                                  *)
(***************************************************************************)
RECURSIVE BytesLess(_, _)
BytesLess(s, t) ==
  IF t = <<>> THEN FALSE
  ELSE IF s = <<>> THEN TRUE
  ELSE IF s[1] # t[1] THEN s[1] < t[1]
  ELSE BytesLess(Tail(s), Tail(t))

StrLess(a, b) == BytesLess(NameBytes[a], NameBytes[b])

RECURSIVE InsertSorted(_, _)
InsertSorted(x, s) ==
  IF s = <<>> THEN <<x>>
  ELSE IF StrLess(x, s[1]) THEN <<x>> \o s
  ELSE <<s[1]>> \o InsertSorted(x, Tail(s))

RECURSIVE SortStrings(_)
SortStrings(s) ==
  IF s = <<>> THEN <<>> ELSE InsertSorted(s[1], SortStrings(Tail(s)))

\* the orders in which Readdirnames may hand out the names of a directory
RECURSIVE Enumerations(_)
Enumerations(S) ==
  IF S = {} THEN {<<>>}
  ELSE UNION {{<<x>> \o p : p \in Enumerations(S \ {x})} : x \in S}

readDirNamesUnsorted(raw) == raw

\* what readDirNames returns when Readdirnames handed out `raw`
readDirNames(raw) == SortStrings(raw)

WalkReadDirNames ==
  /\ pc = "readDirNames"
  /\ LET f == Head(wstack)
         d == Namei(dirents, f.path, TRUE)
     IN  IF d = NoInode \/ d \in env.unreadable \/ IType[d] # "dir"
         THEN /\ WalkReturns(FALSE)
              /\ log' = Append(log, Ev("readdir", f.path, d, FALSE))
         ELSE \E raw \in Enumerations(DOMAIN dirents[d]) :
                /\ wstack' = <<[f EXCEPT !.names = readDirNames(raw), !.i = 1]>>
                               \o Tail(wstack)
                /\ pc' = "walkChild"
                /\ result' = result
                /\ log' = Append(log, Ev("readdir", f.path, d, TRUE))
  /\ UNCHANGED <<cli, env, deref, DO_NOT_FOLLOW, dirents, own, fdtab, co, rc,
                 repoints>>

\* one turn of walk's loop over names: lines 213 to 240
WalkChild ==
  /\ pc = "walkChild"
  /\ LET f == Head(wstack)
     IN  IF f.i > Len(f.names)
         THEN /\ WalkReturns(f.ok)
              /\ UNCHANGED <<co, log>>
         ELSE LET filename == Join(f.path, f.names[f.i])
                  fileInfo == IF ~deref THEN Lstat(filename) ELSE Stat(filename)
                  sym      == f.sym \/ (~deref /\ fileInfo.mode \cap ModeSymlink = ModeSymlink)
                  g        == [f EXCEPT !.sym = sym, !.at = "child"]
                  ev       == Ev("child", filename, fileInfo.ino, ~fileInfo.nil)
              IN  /\ result' = result
                  /\ log' = Append(log, ev)
                  /\ IF ~deref /\ fileInfo.nil
                     THEN \* fileInfo.Mode() of a nil FileInfo
                          /\ pc' = "panic"
                          /\ UNCHANGED <<wstack, co>>
                     ELSE IF fileInfo.nil
                     THEN /\ wstack' = <<[g EXCEPT !.ok = FALSE, !.i = @ + 1]>>
                                         \o Tail(wstack)
                          /\ pc' = "walkChild"
                          /\ co' = co
                     ELSE IF sym /\ travAll /\ IsDir(fileInfo)
                     THEN /\ wstack' = <<Frame(Readlink(filename), fileInfo), g>>
                                         \o Tail(wstack)
                          /\ co' = NewCall(Readlink(filename), fileInfo)
                          /\ pc' = "ChangeOwner"
                     ELSE IF sym /\ IsRegular(fileInfo)
                     THEN /\ wstack' = <<g>> \o Tail(wstack)
                          /\ co' = NewCall(filename, fileInfo)
                          /\ pc' = "ChangeOwner"
                     ELSE IF IsDir(fileInfo)
                     THEN /\ wstack' = <<Frame(filename, fileInfo), g>> \o Tail(wstack)
                          /\ co' = NewCall(filename, fileInfo)
                          /\ pc' = "ChangeOwner"
                     ELSE /\ wstack' = <<g>> \o Tail(wstack)
                          /\ co' = NewCall(filename, fileInfo)
                          /\ pc' = "ChangeOwner"
  /\ UNCHANGED <<cli, env, deref, DO_NOT_FOLLOW, dirents, own, fdtab, rc, repoints>>

(***************************************************************************)
(* ChangeOwner.                                                            *)
(***************************************************************************)
\* os.Open(fname), lines 310 to 316
ChangeOwnerOpen ==
  /\ pc = "ChangeOwner"
  /\ LET i    == Namei(dirents, co.fname, TRUE)
         fail == i = NoInode \/ i \in env.unreadable
     IN  /\ fdtab' = IF fail THEN fdtab ELSE FdOpen(fdtab, i)
         /\ co' = [co EXCEPT !.fi = IF fail THEN NilFile ELSE FreeSlot(fdtab) + 2,
                             !.ok = ~fail]
         /\ log' = Append(log, Ev("open", co.fname, i, ~fail))
  /\ pc' = "CO_stat"
  /\ UNCHANGED <<cli, env, deref, DO_NOT_FOLLOW, dirents, own, wstack, rc,
                 result, repoints>>

\* the test of line 331 on what syscall.Stat filled in
IsRootDirectory(stat_t) == stat_t.Mode \cap ModeDir # {} /\ stat_t.Ino = ROOT_INODE

\* syscall.Stat(fname), the root check and doChown: lines 318 to 345
ChangeOwnerStat ==
  /\ pc = "CO_stat"
  /\ LET i      == Namei(dirents, co.fname, TRUE)
         stat_t == SysStat(i)
         ok     == co.ok /\ i # NoInode
     IN  IF IsRootDirectory(stat_t) /\ recursive /\ pr
         THEN /\ DO_NOT_FOLLOW' = TRUE
              /\ ChangeOwnerReturns(FALSE)
              /\ co' = NoCall
              /\ log' = Append(log, Ev("preserve-root", co.fname, i, FALSE))
         ELSE /\ DO_NOT_FOLLOW' = DO_NOT_FOLLOW
              /\ co' = [co EXCEPT !.stat_t = stat_t, !.ok = ok, !.doChown = ok]
              /\ pc' = IF ~ok THEN "CO_report"
                       ELSE IF ~deref THEN "CO_lchown" ELSE "RestrictedChown"
              /\ log' = log \o
                   (<<Ev("stat", co.fname, i, i # NoInode)>> \o
                    IF IsRootDirectory(stat_t)
                    THEN <<Ev("warning: running chown on root directory without protection",
                              co.fname, i, TRUE)>>
                    ELSE <<>>)
              /\ UNCHANGED <<wstack, result>>
  /\ UNCHANGED <<cli, env, deref, dirents, own, fdtab, rc, repoints>>

\* os.Lchown(fname, uid, gid), lines 348 to 356
ChangeOwnerLchown ==
  /\ pc = "CO_lchown"
  /\ LET i   == Namei(dirents, co.fname, FALSE)
         err == ChownErr(i)
     IN  /\ own' = IF err = "nil" THEN Chowned(own, i, optUid, optGid) ELSE own
         /\ co' = IF err = "nil" THEN co
                  ELSE [co EXCEPT !.ok = TRUE, !.symlinkChanged = FALSE]
         /\ log' = Append(log, Ev("lchown", co.fname, i, err = "nil"))
  /\ pc' = "CO_report"
  /\ UNCHANGED <<cli, env, deref, DO_NOT_FOLLOW, dirents, fdtab, wstack, rc,
                 result, repoints>>

(***************************************************************************)
(* RestrictedChown.                                                        *)
(***************************************************************************)
\* the two stats and the early returns, lines 376 to 471
RestrictedChownStat ==
  /\ pc = "RestrictedChown"
  /\ LET fileInfo == Stat(co.fname)
     IN  IF co.fi > MAX_INT \/ fileInfo.nil
         THEN \* the panic of line 379; fileInfo.Mode() of a nil FileInfo
              /\ pc' = "panic"
              /\ UNCHANGED <<co, rc>>
         ELSE IF (reqUid = Unset /\ reqGid = Unset)
                 \/ (~IsRegular(fileInfo) /\ ~IsDir(fileInfo))
         THEN /\ co' = [co EXCEPT !.status = RC_DO_ORDINARY_CHOWN]
              /\ rc' = NoRC
              /\ pc' = "CO_switch"
         ELSE /\ rc' = [NoRC EXCEPT !.fileInfo = fileInfo,
                                    !.dirOnly = ~IsRegular(fileInfo)]
              /\ co' = co
              /\ pc' = "RC_openat"
  /\ log' = Append(log, Ev("stat", co.fname, Namei(dirents, co.fname, TRUE), TRUE))
  /\ UNCHANGED <<cli, env, deref, DO_NOT_FOLLOW, dirents, own, fdtab, wstack,
                 result, repoints>>

\* the inode openat(2) opens, or NoInode.  A relative path is resolved from
\* the file behind dirfd; O_DIRECTORY wants a directory; a directory cannot
\* be opened for writing.
Openat(dirfd, file, write, dirOnly) ==
  LET i == NameiAt(dirents, FdInode(fdtab, dirfd), file, TRUE)
  IN  IF i = NoInode THEN NoInode
      ELSE IF dirOnly /\ IType[i] # "dir" THEN NoInode
      ELSE IF write /\ IType[i] = "dir" THEN NoInode
      ELSE IF ~write /\ i \in env.unreadable THEN NoInode
      ELSE i

\* lines 473 to 483
RestrictedChownOpenat ==
  /\ pc = "RC_openat"
  /\ LET first  == Openat(co.fi, co.fname, FALSE, rc.dirOnly)
         second == Openat(co.fi, co.fname, TRUE, rc.dirOnly)
         retry  == ~(first # NoInode \/ (first = NoInode /\ IsRegular(rc.fileInfo)))
         opened == IF retry THEN second ELSE first
     IN  /\ log' = log \o
              (<<Ev("openat", co.fname, first, first # NoInode)>> \o
               IF retry
               THEN <<Ev("openat O_WRONLY", co.fname, second, second # NoInode)>>
               ELSE <<>>)
         /\ IF retry /\ second = NoInode
            THEN \* err != nil whenever the second openat failed
                 /\ co' = [co EXCEPT !.status =
                             IF second = NoInode THEN RC_DO_ORDINARY_CHOWN
                             ELSE RC_ERROR]
                 /\ rc' = NoRC
                 /\ fdtab' = fdtab
                 /\ pc' = "CO_switch"
            ELSE /\ fdtab' = IF opened = NoInode THEN fdtab ELSE FdOpen(fdtab, opened)
                 /\ rc' = [rc EXCEPT !.fd = IF opened = NoInode THEN NilFile
                                           ELSE FreeSlot(fdtab) + 2]
                 /\ co' = co
                 /\ pc' = "RC_fstat"
  /\ UNCHANGED <<cli, env, deref, DO_NOT_FOLLOW, dirents, own, wstack, result,
                 repoints>>

\* the condition of line 489, as Go parses it: && binds tighter than ||
MatchDecision(rUid, rGid, fstat) ==
  \/ rUid = Unset
  \/ (U32(rUid) = U32(fstat.Uid) /\ rGid = Unset)
  \/ U32(rGid) = U32(fstat.Gid)

\* lines 485 to 489
RestrictedChownFstat ==
  /\ pc = "RC_fstat"
  /\ LET i     == FdInode(fdtab, rc.fd)
         fstat == SysStat(i)
     IN  /\ log' = Append(log, Ev("fstat", co.fname, i, i # NoInode))
         /\ IF i = NoInode
            THEN /\ rc' = [rc EXCEPT !.status = RC_ERROR]
                 /\ pc' = "RC_close"
            ELSE IF ~SameFile(co.origStat, rc.fileInfo)
            THEN /\ rc' = [rc EXCEPT !.fstat = fstat, !.status = RC_INODE_CHANGED]
                 /\ pc' = "RC_close"
            ELSE /\ rc' = [rc EXCEPT !.fstat = fstat]
                 /\ pc' = IF MatchDecision(reqUid, reqGid, fstat)
                          THEN "RC_fchown" ELSE "RC_close"
  /\ UNCHANGED <<cli, env, deref, DO_NOT_FOLLOW, dirents, own, fdtab, wstack,
                 co, result, repoints>>

\* syscall.Fchown(fd, uid, gid) and the close that follows its success:
\* lines 490 to 501
RestrictedChownFchown ==
  /\ pc = "RC_fchown"
  /\ LET i   == FdInode(fdtab, rc.fd)
         err == ChownErr(i)
     IN  IF err = "nil"
         THEN /\ own' = Chowned(own, i, optUid, optGid)
              /\ fdtab' = FdClose(fdtab, rc.fd)
              /\ co' = [co EXCEPT !.status =
                          IF CloseErr(i) = "nil" THEN RC_OK ELSE RC_ERROR]
              /\ rc' = NoRC
              /\ pc' = "CO_switch"
              /\ log' = log \o <<Ev("fchown", co.fname, i, TRUE),
                                  Ev("close", co.fname, i, CloseErr(i) = "nil")>>
         ELSE /\ own' = own
              /\ fdtab' = fdtab
              /\ co' = co
              /\ rc' = [rc EXCEPT !.status = RC_ERROR]
              /\ pc' = "RC_close"
              /\ log' = log \o
                   (<<Ev("fchown", co.fname, i, FALSE)>> \o
                    IF err = "EPERM"
                    THEN <<Ev("not permitted", co.fname, i, FALSE)>> ELSE <<>>)
  /\ UNCHANGED <<cli, env, deref, DO_NOT_FOLLOW, dirents, wstack, result, repoints>>

\* lines 503 to 507
RestrictedChownClose ==
  /\ pc = "RC_close"
  /\ LET i == FdInode(fdtab, rc.fd)
     IN  /\ fdtab' = IF i = NoInode THEN fdtab ELSE FdClose(fdtab, rc.fd)
         /\ log' = Append(log, Ev("close", co.fname, i, CloseErr(i) = "nil"))
         /\ IF CloseErr(i) # "nil"
            THEN \* panic(err)
                 /\ pc' = "panic"
                 /\ UNCHANGED <<co, rc>>
            ELSE /\ co' = [co EXCEPT !.status = rc.status]
                 /\ rc' = NoRC
                 /\ pc' = "CO_switch"
  /\ UNCHANGED <<cli, env, deref, DO_NOT_FOLLOW, dirents, own, wstack, result,
                 repoints>>

OrdinaryChownInodeNoFollow(fname) == Namei(dirents, fname, FALSE)

\* the inode the ordinary change of lines 386 to 410 acts on
OrdinaryChownInode(fname) == Namei(dirents, fname, deref)

\* the switch on status, lines 382 to 421
ChangeOwnerSwitch ==
  /\ pc = "CO_switch"
  /\ LET i   == OrdinaryChownInode(co.fname)
         err == ChownErr(i)
     IN  CASE co.status = RC_OK ->
                /\ pc' = "CO_report"
                /\ UNCHANGED <<own, co, log>>
           [] co.status = RC_DO_ORDINARY_CHOWN ->
                /\ own' = IF err = "nil" THEN Chowned(own, i, optUid, optGid) ELSE own
                /\ co' = [co EXCEPT !.ok = (err = "nil")]
                /\ log' = log \o
                     (<<Ev(IF ~deref THEN "lchown" ELSE "chown", co.fname, i,
                           err = "nil")>> \o
                      IF err = "EPERM" /\ ~mute
                      THEN <<Ev("not permitted", co.fname, i, FALSE)>> ELSE <<>>)
                /\ pc' = "CO_report"
           [] co.status = RC_ERROR ->
                /\ co' = [co EXCEPT !.ok = FALSE]
                /\ pc' = "CO_report"
                /\ UNCHANGED <<own, log>>
           [] co.status \in {RC_INODE_CHANGED, RC_EXCLUDED} ->
                /\ co' = [co EXCEPT !.doChown = FALSE, !.ok = FALSE]
                /\ pc' = "CO_report"
                /\ UNCHANGED <<own, log>>
           [] OTHER ->
                \* panic("Now how did this happen?")
                /\ pc' = "panic"
                /\ UNCHANGED <<own, co, log>>
  /\ UNCHANGED <<cli, env, deref, DO_NOT_FOLLOW, dirents, fdtab, wstack, rc,
                 result, repoints>>

(***************************************************************************)
(* The report of the change, lines 425 to 447, and DescribeChange.         *)
(***************************************************************************)
UserNames == 0 :> "root" @@ 500 :> "eric" @@ 1000 :> "guest"
GroupNames == 0 :> "root" @@ 100 :> "users"

\* the name of the user with the uint32 id u32, or "" (CantFind)
uidToName(u32) ==
  IF \E u \in Users : U32(u) = u32
  THEN UserNames[CHOOSE u \in Users : U32(u) = u32] ELSE ""
gidToName(u32) ==
  IF \E g \in Groups : U32(g) = u32
  THEN GroupNames[CHOOSE g \in Groups : U32(g) = u32] ELSE ""

\* the lines DescribeChange prints, and whether it panics
DescribeChange(changed, olduser, oldgroup, user, group) ==
  LET userbool  == user # ""
      groupbool == group # ""
      first == IF changed = CH_NOT_APPLIED THEN <<"neither symbolic link nor referent has been changed">>
               ELSE <<>>
  IN  CASE changed = CH_SUCCEEDED ->
             [lines |-> first \o <<IF userbool THEN "changed ownership"
                                   ELSE IF groupbool THEN "changed group"
                                   ELSE "no change in ownership">>,
              panic |-> FALSE]
        [] changed = CH_FAILED ->
             [lines |-> first \o <<IF userbool THEN "failed to change ownership from to"
                                   ELSE IF groupbool THEN "failed to change group"
                                   ELSE "failed to change ownership">>,
              panic |-> FALSE]
        [] changed = CH_NO_CHANGE_REQUESTED ->
             [lines |-> first \o <<IF userbool \/ groupbool THEN "ownership retained as"
                                   ELSE "ownership retained">>,
              panic |-> FALSE]
        [] OTHER ->
             \* panic("let's go out with a bang!")
             [lines |-> first, panic |-> TRUE]

\* line 426
Changed(doChown, ok, symlinkChanged, uid, gid, stat_t) ==
  /\ doChown
  /\ ok
  /\ ((symlinkChanged /\ uid # Unset) \/ U32(uid) = U32(stat_t.Uid))
  /\ (gid # Unset \/ U32(gid) = U32(stat_t.Gid))

\* lines 428 to 436
ChangeStatus(ok, symlinkChanged, changed) ==
  IF ~ok THEN CH_FAILED
  ELSE IF ~symlinkChanged THEN CH_NOT_APPLIED
  ELSE IF ~changed THEN CH_NO_CHANGE_REQUESTED
  ELSE CH_SUCCEEDED

ChangeOwnerReport ==
  /\ pc = "CO_report"
  /\ LET changed  == Changed(co.doChown, co.ok, co.symlinkChanged, optUid, optGid,
                             co.stat_t)
         describe == ((~mute /\ verbose) \/ changes) /\ (changed \/ verbose)
         status   == ChangeStatus(co.ok, co.symlinkChanged, changed)
         d        == DescribeChange(status, uidToName(U32(co.stat_t.Uid)),
                                    gidToName(U32(co.stat_t.Gid)),
                                    uidToName(U32(optUid)), gidToName(U32(optGid)))
     IN  IF describe
         THEN /\ log' = log \o [k \in 1 .. Len(d.lines) |->
                                  Ev(d.lines[k], co.fname, status, co.ok)]
              /\ IF d.panic
                 THEN /\ pc' = "panic"
                      /\ UNCHANGED <<wstack, result, co>>
                 ELSE /\ ChangeOwnerReturns(co.ok)
                      /\ co' = NoCall
         ELSE /\ log' = log
              /\ ChangeOwnerReturns(co.ok)
              /\ co' = NoCall
  /\ UNCHANGED <<cli, env, deref, DO_NOT_FOLLOW, dirents, own, fdtab, rc, repoints>>

(***************************************************************************)
(* The program alone.                                                      *)
(***************************************************************************)
Next ==
  \/ Main
  \/ ChownFiles
  \/ WalkReadDirNames
  \/ WalkChild
  \/ ChangeOwnerOpen
  \/ ChangeOwnerStat
  \/ ChangeOwnerLchown
  \/ RestrictedChownStat
  \/ RestrictedChownOpenat
  \/ RestrictedChownFstat
  \/ RestrictedChownFchown
  \/ RestrictedChownClose
  \/ ChangeOwnerSwitch
  \/ ChangeOwnerReport

Spec == Init /\ [][Next]_vars

(***************************************************************************)
(* The program and a second process that, after the program has first      *)
(* observed an entry and before it changes the entry's owner, renames a    *)
(* link to the file /v over the entry's name.                              *)
(***************************************************************************)
Victim == Dirents0[RootDir]["v"]

Repoint ==
  /\ pc \in {"ChangeOwner", "CO_stat", "CO_lchown", "RestrictedChown", "RC_openat",
             "RC_fstat", "RC_fchown"}
  /\ repoints < MaxRepoints
  /\ co.fname.comps # <<>>
  /\ LET comps  == co.fname.comps
         parent == Namei(dirents, Path(co.fname.abs, SubSeq(comps, 1, Len(comps) - 1)), TRUE)
         name   == comps[Len(comps)]
     IN  /\ parent # NoInode
         /\ IType[parent] = "dir"
         /\ name \in DOMAIN dirents[parent]
         /\ IType[dirents[parent][name]] = "reg"
         /\ dirents[parent][name] # Victim
         /\ dirents' = [dirents EXCEPT ![parent][name] = Victim]
  /\ repoints' = repoints + 1
  /\ UNCHANGED <<cli, env, deref, DO_NOT_FOLLOW, own, fdtab, pc, wstack, co, rc,
                 result, log>>

InitRace ==
  /\ Init
  /\ cli.from # NoTok
  /\ cli.inFile \in {Path(TRUE, <<"d">>), Path(TRUE, <<"d", "a.txt">>),
                     Path(TRUE, <<"d", "b.txt">>)}

NextRace == Next \/ Repoint

SpecRace == InitRace /\ [][NextRace]_vars

(***************************************************************************)
(* The program and a second process that takes away the permission to read *)
(* a regular file after ChangeOwner has opened it and before               *)
(* RestrictedChown opens it again.                                         *)
(***************************************************************************)
Revoke ==
  /\ pc \in {"CO_stat", "RestrictedChown", "RC_openat"}
  /\ LET i == Namei(dirents, co.fname, TRUE)
     IN  /\ i # NoInode
         /\ IType[i] = "reg"
         /\ i \notin env.unreadable
         /\ env' = [env EXCEPT !.unreadable = @ \cup {i}]
  /\ UNCHANGED <<cli, deref, DO_NOT_FOLLOW, dirents, own, fdtab, pc, wstack, co,
                 rc, result, log, repoints>>

NextChmod == Next \/ Revoke

SpecChmod == InitRace /\ [][NextChmod]_vars

(***************************************************************************)
(* The recursive runs of the program alone, which always takes its next    *)
(* step.                                                                   *)
(***************************************************************************)
InitRecursive == Init /\ "-R" \in cli.flags

SpecLive == InitRecursive /\ [][Next]_vars /\ WF_vars(Next)

(***************************************************************************)
(* Vocabulary of the properties.                                           *)
(***************************************************************************)
FilterSet == reqUid # Unset \/ reqGid # Unset

\* the filter of spec section 4.1: each required field, when present, must
\* equal the current one
FilterAccepts(rUid, rGid, o) ==
  /\ rUid = Unset \/ rUid = o.uid
  /\ rGid = Unset \/ rGid = o.gid

\* the traversal option in effect: the last one given, -P when none is
PolicyInEffect == IF cli.trav = <<>> THEN "-P" ELSE cli.trav[Len(cli.trav)]

ChangeOps == {"chown", "lchown", "fchown"}
Terminated == pc \in {"done", "exit", "panic"}
IsSymlinkPath(path) ==
  LET i == Namei(dirents, path, FALSE) IN i # NoInode /\ IType[i] = "lnk"
ParentOf(path) == Path(path.abs, SubSeq(path.comps, 1, Len(path.comps) - 1))
LastName(path) == path.comps[Len(path.comps)]
\* the walks entered for a child, that is all but the outermost
InnerFrames == {wstack[k] : k \in 1 .. Len(wstack) - 1}

(***************************************************************************)
(* C1: with a non-empty filter and dereferencing, once the entry's path has *)
(* been re-pointed to another inode between its first observation and the  *)
(* change, the replacement keeps its owner and group, and the run on that  *)
(* single entry returns false.                                             *)
(***************************************************************************)
C1_RepointedEntryIsRefused ==
  (FilterSet /\ deref /\ pc # "main" /\ repoints > 0) =>
    /\ own[Victim] = Own0[Victim]
    /\ (pc = "done" /\ ~recursive) => result = "false"

(***************************************************************************)
(* C2: with a non-empty filter, an entry whose owner or group does not     *)
(* match the filter keeps its owner and group, in either dereference mode, *)
(* and a run on such a single entry ends normally and does not report a    *)
(* failure.                                                                *)
(***************************************************************************)
C2_FilteredEntryIsUntouched ==
  (FilterSet /\ pc # "main") =>
    /\ \A i \in Inodes :
         ~FilterAccepts(reqUid, reqGid, Own0[i]) => own[i] = Own0[i]
    /\ (/\ ~recursive
        /\ Terminated
        /\ Namei(dirents, inFile, TRUE) # NoInode
        /\ ~FilterAccepts(reqUid, reqGid, Own0[Namei(dirents, inFile, TRUE)]))
       => (pc = "done" /\ result = "true")

(***************************************************************************)
(* C3: with --preserve-root and -R, a run whose target is the directory    *)
(* with the root inode changes no owner or group anywhere and returns      *)
(* false.                                                                  *)
(***************************************************************************)
C3_PreserveRootChangesNothing ==
  (pr /\ recursive /\ Namei(dirents, inFile, TRUE) = RootDir) =>
    /\ own = Own0
    /\ pc = "done" => result = "false"

(***************************************************************************)
(* C4: a recursive run returns true only if no visited entry failed: no    *)
(* entry could not be opened, stat-ed or listed, and no chown or fchown    *)
(* was refused.                                                            *)
(***************************************************************************)
C4_TrueOnlyIfNoEntryFailed ==
  (recursive /\ pc = "done" /\ result = "true") =>
    \A k \in 1 .. Len(log) :
      log[k].op \in {"chown", "fchown", "open", "child", "readdir"} => log[k].ok

(***************************************************************************)
(* C5: the decision that guards fchown is the per-field predicate: the     *)
(* program goes on to fchown exactly when the required owner is absent or  *)
(* equals the owner read from the handle, and likewise for the group.      *)
(***************************************************************************)
C5_MatchIsPerField ==
  (pc \in {"RC_fchown", "RC_close"} /\ rc.status = RC_UNSET /\ rc.fd # NilFile) =>
    ((pc = "RC_fchown") <=>
       FilterAccepts(reqUid, reqGid, Owner(rc.fstat.Uid, rc.fstat.Gid)))

(***************************************************************************)
(* C6: without a filter no entry is handled through a handle (openat,      *)
(* fstat, fchown), and every entry whose processing by ChangeOwner has     *)
(* ended was issued the path-based change.                                 *)
(***************************************************************************)
C6_NoFilterAlwaysOrdinaryChown ==
  (~FilterSet) =>
    /\ \A k \in 1 .. Len(log) : log[k].op \notin {"openat", "fstat", "fchown"}
    /\ \A k \in 1 .. Len(log) :
         (/\ log[k].op = "open"
          /\ \/ \E j \in k + 1 .. Len(log) : log[j].op = "open"
             \/ pc \in {"done", "readDirNames", "walkChild"})
         => \E j \in k + 1 .. Len(log) :
              /\ log[j].op \in {"chown", "lchown"}
              /\ log[j].path = log[k].path
              /\ \A m \in k + 1 .. j : log[m].op # "open"

(***************************************************************************)
(* C7: the children of a directory are processed in strictly ascending     *)
(* byte order of their names: the child taken up last comes after every    *)
(* child of the same directory taken up before it.                         *)
(***************************************************************************)
C7_ChildrenInLexicographicOrder ==
  (log # <<>> /\ log[Len(log)].op = "child") =>
    \A j \in 1 .. Len(log) - 1 :
      (log[j].op = "child" /\ ParentOf(log[j].path) = ParentOf(log[Len(log)].path))
      => StrLess(LastName(log[j].path), LastName(log[Len(log)].path))

\* /d's three children have been taken up, c last
C7_Witness ==
  /\ pc = "done"
  /\ \E i, j, k \in 1 .. Len(log) :
       /\ i < j /\ j < k
       /\ log[i].op = "child" /\ log[i].path = Path(TRUE, <<"d", "a.txt">>)
       /\ log[j].op = "child" /\ log[j].path = Path(TRUE, <<"d", "b.txt">>)
       /\ log[k].op = "child" /\ log[k].path = Path(TRUE, <<"d", "c">>)

(***************************************************************************)
(* C8: with -P in effect, no walk is entered for a child that is a         *)
(* symbolic link, whatever the dereference flag.                           *)
(***************************************************************************)
C8_NoFollowNeverDescends ==
  (recursive /\ PolicyInEffect = "-P") =>
    \A f \in InnerFrames : ~IsSymlinkPath(f.path)

(***************************************************************************)
(* C9: with -H in effect, no walk is entered for a symbolic link found     *)
(* below the traversal root.                                               *)
(***************************************************************************)
C9_CommandLineSymlinksOnly ==
  (recursive /\ PolicyInEffect = "-H") =>
    \A f \in InnerFrames : ~IsSymlinkPath(f.path)

(***************************************************************************)
(* C10.  The target is a symbolic link to a directory, -L is in effect and *)
(* dereferencing is on.                                                    *)
(***************************************************************************)
LinkToDirRun ==
  /\ recursive
  /\ PolicyInEffect = "-L"
  /\ deref
  /\ pc # "main"
  /\ IsSymlinkPath(inFile)
  /\ Namei(dirents, inFile, TRUE) # NoInode
  /\ IType[Namei(dirents, inFile, TRUE)] = "dir"

\* C10 as claimed: by the time any owner or group has changed, the link's
\* own has
C10_LinkItselfChangedFirst ==
  (LinkToDirRun /\ own # Own0) =>
    own[Namei(dirents, inFile, FALSE)] # Own0[Namei(dirents, inFile, FALSE)]

\* C10 as amended: the link's own owner and group never change; the first
\* change attempted is the one on the referent directory, made through the
\* link's path, and every child is taken up after it
C10_ReferentFirstLinkUntouched ==
  LinkToDirRun =>
    /\ own[Namei(dirents, inFile, FALSE)] = Own0[Namei(dirents, inFile, FALSE)]
    /\ \A k \in 1 .. Len(log) :
         (log[k].op \in ChangeOps \cup {"child"}) =>
           \E j \in 1 .. k :
             /\ log[j].op \in ChangeOps
             /\ log[j].path = inFile
             /\ log[j].ino = Namei(dirents, inFile, TRUE)
             /\ \A m \in 1 .. j - 1 : log[m].op \notin ChangeOps \cup {"child"}

\* the run on /ln is over: /e and /e/s/y below it are changed, /ln is not
C10_Witness ==
  /\ LinkToDirRun
  /\ pc = "done"
  /\ own[21].uid = 1000
  /\ own[25].uid = 1000
  /\ own[31] = Own0[31]

(***************************************************************************)
(* C11.  A recursive run without a filter on /d, a tree without symbolic   *)
(* links.                                                                  *)
(***************************************************************************)
SymlinkFreeRun ==
  /\ recursive
  /\ ~FilterSet
  /\ inFile.comps = <<"d">>
  /\ pc # "main"

\* p comes before q in the pre-order walk that takes siblings in byte order
RECURSIVE PreOrderBefore(_, _)
PreOrderBefore(p, q) ==
  IF p = <<>> THEN q # <<>>
  ELSE IF q = <<>> THEN FALSE
  ELSE IF p[1] = q[1] THEN PreOrderBefore(Tail(p), Tail(q))
  ELSE StrLess(p[1], q[1])

IsChangeEvent(e) == e.op \in ChangeOps
ChangeEvents == SelectSeq(log, IsChangeEvent)
\* the entries the run has taken up: the root and every child found
TakenUp == {inFile} \cup {log[k].path : k \in {j \in 1 .. Len(log) : log[j].op = "child"}}
AttemptsOn(path) == {k \in 1 .. Len(log) : IsChangeEvent(log[k]) /\ log[k].path = path}

\* C11: the change attempts come in pre-order (a directory before its
\* descendants, the subtree of a child before the next sibling); when the
\* run is over every entry taken up has received exactly one attempt; and
\* where the kernel refuses nothing the attempts are on /d, /d/a.txt,
\* /d/b.txt, /d/c, /d/c/z.txt in that order, all succeed and the result is
\* true
C11_PreOrderOneAttemptEach ==
  SymlinkFreeRun =>
    /\ \A j, k \in 1 .. Len(ChangeEvents) :
         j < k => PreOrderBefore(ChangeEvents[j].path.comps, ChangeEvents[k].path.comps)
    /\ pc = "done" => \A e \in TakenUp : Cardinality(AttemptsOn(e)) = 1
    /\ (pc = "done" /\ env.eperm = {} /\ env.unreadable = {}) =>
         /\ [k \in 1 .. Len(ChangeEvents) |-> ChangeEvents[k].path.comps] =
              << <<"d">>, <<"d", "a.txt">>, <<"d", "b.txt">>, <<"d", "c">>,
                 <<"d", "c", "z.txt">> >>
         /\ \A k \in 1 .. Len(ChangeEvents) : ChangeEvents[k].ok
         /\ result = "true"

(***************************************************************************)
(* C12: in a recursive run that has ended, every child of every directory  *)
(* that could be listed has been taken up, whatever failed before it, and  *)
(* if some entry could not be opened, stat-ed or listed the result is      *)
(* false.                                                                  *)
(***************************************************************************)
C12_IOFailureIsNotFatalButCounts ==
  (recursive /\ pc = "done") =>
    /\ \A k \in 1 .. Len(log) :
         (log[k].op = "readdir" /\ log[k].ok) =>
           \A n \in DOMAIN dirents[log[k].ino] :
             \E j \in k + 1 .. Len(log) :
               log[j].op = "child" /\ log[j].path = Join(log[k].path, n)
    /\ (\E k \in 1 .. Len(log) :
          log[k].op \in {"open", "stat", "lstat", "child", "readdir"} /\ ~log[k].ok)
       => result = "false"

(***************************************************************************)
(* C13: with a non-empty filter, no path-based change (chown, lchown) is   *)
(* ever issued on a regular file or a directory.                           *)
(***************************************************************************)
C13_FilteredChangeOnlyThroughHandle ==
  FilterSet =>
    \A k \in 1 .. Len(log) :
      (log[k].op \in {"chown", "lchown"} /\ log[k].ino # NoInode)
      => IType[log[k].ino] \notin {"reg", "dir"}

(***************************************************************************)
(* C14: when fchown succeeded and the close after it failed, the outcome   *)
(* ChangeOwner computes for the entry is not the failed change, and        *)
(* ChangeOwner does not return false for the change.                       *)
(***************************************************************************)
CloseFailedAfterChange ==
  /\ pc = "CO_report"
  /\ Len(log) >= 2
  /\ log[Len(log)].op = "close" /\ ~log[Len(log)].ok
  /\ log[Len(log) - 1].op = "fchown" /\ log[Len(log) - 1].ok

C14_CloseFailureIsNotAFailedChange ==
  CloseFailedAfterChange =>
    /\ ChangeStatus(co.ok, co.symlinkChanged,
                    Changed(co.doChown, co.ok, co.symlinkChanged, optUid, optGid,
                            co.stat_t)) # CH_FAILED
    /\ co.ok

(***************************************************************************)
(* C15: when the read-only openat of a regular file is refused for lack of *)
(* permission, the next call is the openat for writing, and no fstat,      *)
(* fchown or close that follows is made on a descriptor that is not open.  *)
(***************************************************************************)
ReadOpenRefused(k) ==
  /\ log[k].op = "openat"
  /\ ~log[k].ok
  /\ log[k].path.abs
  /\ Namei(dirents, log[k].path, TRUE) # NoInode
  /\ IType[Namei(dirents, log[k].path, TRUE)] = "reg"
  /\ Namei(dirents, log[k].path, TRUE) \in env.unreadable

C15_RefusedOpenIsRetriedForWriting ==
  \A k \in 1 .. Len(log) :
    (ReadOpenRefused(k) /\ k < Len(log)) =>
      /\ log[k + 1].op = "openat O_WRONLY"
      /\ \A j \in k + 1 .. Len(log) :
           (log[j].op \in {"fstat", "fchown", "close"} /\ log[j].path = log[k].path)
           => log[j].ino # NoInode

(***************************************************************************)
(* C16: a change refused for lack of privilege, whether made by fchown,    *)
(* chown or lchown, is followed at once by the "not permitted" message,    *)
(* does not end the run abnormally, and makes ChangeOwner return false:    *)
(* a run on that single entry returns false.                               *)
(***************************************************************************)
C16_NotPermittedIsReportedAndFails ==
  \A k \in 1 .. Len(log) :
    (log[k].op \in ChangeOps /\ ~log[k].ok /\ log[k].ino \in env.eperm) =>
      /\ k < Len(log) /\ log[k + 1].op = "not permitted"
      /\ pc # "panic"
      /\ (~recursive /\ pc = "done") => result = "false"

(***************************************************************************)
(* C17: whatever outcome ChangeOwner hands to DescribeChange, the call     *)
(* returns normally: reporting never ends the run.                         *)
(***************************************************************************)
ReportedStatus ==
  ChangeStatus(co.ok, co.symlinkChanged,
               Changed(co.doChown, co.ok, co.symlinkChanged, optUid, optGid,
                       co.stat_t))
Reporting ==
  /\ (~mute /\ verbose) \/ changes
  /\ Changed(co.doChown, co.ok, co.symlinkChanged, optUid, optGid, co.stat_t)
     \/ verbose

C17_ReporterReturnsNormally ==
  /\ (pc = "CO_report" /\ Reporting) =>
       ~DescribeChange(ReportedStatus, uidToName(U32(co.stat_t.Uid)),
                       gidToName(U32(co.stat_t.Gid)), uidToName(U32(optUid)),
                       gidToName(U32(optGid))).panic
  /\ ~(/\ pc = "panic"
       /\ log # <<>>
       /\ log[Len(log)].op = "neither symbolic link nor referent has been changed")

(***************************************************************************)
(* C18: once ChangeOwner has stat-ed an entry that is the directory with   *)
(* the root inode and has gone past the check of line 331, the check has   *)
(* fired: the entry's stat is followed in the output by the abort message  *)
(* or by the warning.                                                      *)
(***************************************************************************)
C18_RootCheckFires ==
  (/\ pc \in {"CO_lchown", "RestrictedChown", "CO_report"}
   /\ co.stat_t.Ino = ROOT_INODE
   /\ IType[co.stat_t.Ino] = "dir")
  => /\ IsRootDirectory(co.stat_t)
     /\ \E k \in 1 .. Len(log) :
          /\ log[k].op = "warning: running chown on root directory without protection"
          /\ log[k].path = co.fname

(***************************************************************************)
(* C19: the status RestrictedChown hands to ChangeOwner's switch is one of *)
(* the five defined ones, and it is RC_EXCLUDED exactly when the filter is *)
(* set and does not accept the owner and group read from the handle; the   *)
(* switch never reaches its default branch.                                *)
(***************************************************************************)
DefinedStatuses ==
  {RC_OK, RC_EXCLUDED, RC_INODE_CHANGED, RC_DO_ORDINARY_CHOWN, RC_ERROR}

C19_StatusIsDefined ==
  /\ pc = "CO_switch" => co.status \in DefinedStatuses
  /\ (pc = "RC_close" /\ rc.status = RC_UNSET /\ rc.fd # NilFile) =>
       ~FilterAccepts(reqUid, reqGid, Owner(rc.fstat.Uid, rc.fstat.Gid))
  /\ ~(/\ pc = "panic"
       /\ co.status \notin DefinedStatuses
       /\ log # <<>>
       /\ log[Len(log)].op = "close"
       /\ log[Len(log)].ok)

(***************************************************************************)
(* C20: whenever no entry is being processed (between two entries of a     *)
(* walk and when the run is over) no descriptor is open, as before the     *)
(* run, and no close is ever made on a descriptor that is not open.        *)
(***************************************************************************)
OpenHandles == {k \in 1 .. Len(fdtab) : fdtab[k] # NoInode}

C20_NoHandleIsLeaked ==
  /\ pc \in {"done", "readDirNames", "walkChild"} => OpenHandles = {}
  /\ \A k \in 1 .. Len(log) : log[k].op = "close" => log[k].ino # NoInode

(***************************************************************************)
(* C21: a recursive run eventually ends with a result: ChownFiles returns, *)
(* or main has refused the options before the run began.                   *)
(***************************************************************************)
C21_RecursiveRunReturns == <>(recursive /\ pc \in {"done", "exit"})

(***************************************************************************)
(* C22: a child that is not a symbolic link is handled under its own path, *)
(* whatever its siblings are: the call made for it (the ChangeOwner of the *)
(* child, or the one that opens the walk of a subdirectory) is on the      *)
(* child's path.                                                           *)
(***************************************************************************)
C22_ChildHandledUnderItsOwnPath ==
  \A k \in 1 .. Len(log) - 1 :
    (log[k].op = "child" /\ log[k].ok /\ ~IsSymlinkPath(log[k].path))
    => (log[k + 1].op = "open" /\ log[k + 1].path = log[k].path)

====
